---- MODULE Spec2Model ----
(***************************************************************************)
(* Model of bugeutils::list::ReusableIndexVec, the generational slot map   *)
(* of src/list/reusable_index_vec.rs: a vector of nodes, a free list       *)
(* threaded through the removed nodes, and handles ID(cycle_stamp, index). *)
(* Indices are 0-based as in the source; slot i lives at vector[i + 1].    *)
(***************************************************************************)
EXTENDS Integers, Sequences, FiniteSets, TLC

\* ------------------------------------------------------------------ bounds
\* Width of CycleStamp in bits.  The source uses 32 bits (u32); the model
\* keeps the wrapping arithmetic and scales the width down so that a
\* wraparound is reachable.
CycleStampBits == 2

\* Cap on the number of slots the general specification lets the vector grow to.
MaxLen == 3

\* Cap on the number of add calls in one behaviour of the general specification.
MaxAdds == 5

\* ------------------------------------------------------------- data model
CycleStampModulus == 2 ^ CycleStampBits

CycleStamp == 0 .. (CycleStampModulus - 1)

\* Values stored by the general specification.
Values == {"A", "B"}

\* Option<Index>::None and the absence of a stored value.
NoIndex == -1

NoValue == "-"

\* ID(cycle_stamp, index): the handle, a pair compared field by field.
ID(cycle_stamp, index) == [stamp |-> cycle_stamp, index |-> index]

\* Handles a caller may pass: every stamp, every index up to one past the cap.
Handles == {ID(c, i) : c \in CycleStamp, i \in 0 .. MaxLen}

\* ReusableIndexNode<T>
Exists(cycle_stamp, node) ==
    [tag |-> "Exists", stamp |-> cycle_stamp, value |-> node, next |-> NoIndex]

Removed(cycle_stamp) ==
    [tag |-> "Removed", stamp |-> cycle_stamp, value |-> NoValue, next |-> NoIndex]

RemovedAndNext(cycle_stamp, next_removed) ==
    [tag |-> "RemovedAndNext", stamp |-> cycle_stamp, value |-> NoValue, next |-> next_removed]

\* Mutant of WrappingAdd1: the cycle stamp is carried over unchanged.
WrappingAdd1_no_bump(cycle_stamp) == cycle_stamp

\* Mutant of WrappingAdd1: the addition saturates at the largest stamp.
WrappingAdd1_saturating(cycle_stamp) ==
    IF cycle_stamp + 1 < CycleStampModulus THEN cycle_stamp + 1 ELSE cycle_stamp

\* cycle_stamp.wrapping_add(1)
WrappingAdd1(cycle_stamp) == (cycle_stamp + 1) % CycleStampModulus

\* self.vector[index], 0-based
At(vec, index) == vec[index + 1]

\* Mutant of SetAt: the node is written one slot too low.
SetAt_one_below(vec, index, node) ==
    IF index = 0 THEN [vec EXCEPT ![1] = node] ELSE [vec EXCEPT ![index] = node]

\* self.vector[index] = node, 0-based
SetAt(vec, index, node) == [vec EXCEPT ![index + 1] = node]

VARIABLES
    vector,         \* self.vector
    last_removed,   \* self.last_removed, NoIndex for None
    panicked,       \* TRUE once add hit its panic / out-of-bounds index
    lastOp,         \* the last call made on the container: what it returned and
                    \* the handle it issued (add) or retired (successful remove)
    adds,           \* history: number of add calls that returned
    issued,         \* history: the set of handles add has returned
    removed,        \* history: handles remove has accepted, with the fill count then
    fills,          \* history: per slot, how many times add has put a value in it
    run,            \* history: handles returned by add since the last remove call
    freed,          \* history: indices of the empty slots in order of removal
    removes,        \* history: number of successful remove calls
    peak,           \* history: the most values that were live at one time
    iter,           \* the live ReusableIndexIterator, if any
    yielded,        \* the items the live iterator has returned so far
    earlier,        \* history: how far the iterator dropped last had advanced,
                    \* kept while the container is as that iterator saw it
    pc,             \* position in the scripted scenario
    ids,            \* the scenario's local variables: the handles its adds returned
    bb,             \* the BlackBox: its lifetime state and its three fields
    heap,           \* the heap cells a BlackBox pointer may address
    dropper_calls,  \* history: the pointers the box's dropper was invoked with
    bbOp,           \* the last call made on the BlackBox and what it returned
    stored,         \* history: the value last moved or written into the box
    ub              \* TRUE once a call had undefined behaviour

container == <<vector, last_removed, panicked>>

history == <<adds, issued, removed, fills, run, freed, removes, peak>>

iteration == <<iter, yielded>>

\* Everything that belongs to the slot map and its scenario.
slotmap == <<vector, last_removed, panicked, lastOp, adds, issued, removed, fills,
             run, freed, removes, peak, iter, yielded, earlier, pc, ids>>

blackbox == <<bb, heap, dropper_calls, bbOp, stored, ub>>

vars == <<vector, last_removed, panicked, lastOp, adds, issued, removed, fills,
          run, freed, removes, peak, iter, yielded, earlier, pc, ids,
          bb, heap, dropper_calls, bbOp, stored, ub>>

\* The handle field of a call that neither issued nor retired a handle.
NoID == ID(0, NoIndex)

Call(op, result, id, value, reused) ==
    [op |-> op, result |-> result, id |-> id, value |-> value, reused |-> reused]

NoOp == Call("none", "none", NoID, NoValue, FALSE)

NoIter == [active |-> FALSE, length |-> 0, index |-> 0]

\* No iterator has been dropped since the container last changed.
NoEarlier == [some |-> FALSE, index |-> 0]

\* ------------------------------------------------- BlackBox: data model
\* The types a BlackBox is built from and asked for.
BoxTypes == {"u32", "i32", "u64"}

NoType == "-"

\* TypeId::of::<T>(): one token per type, different for different types.
TypeIdOf(T) == <<"TypeId", T>>

\* A value of type T, by the content of its memory.
BoxValue(T, bits) == [type |-> T, bits |-> bits]

BoxValues(T) == {BoxValue(T, bits) : bits \in {200, 300}}

NoBoxValue == BoxValue(NoType, 0)

\* The addresses Box::new may return.  None of them is null.
MaxPtr == 2

Ptrs == 1 .. MaxPtr

\* A heap cell: free, or allocated for a value of some type.
FreeCell == [alloc |-> FALSE, value |-> NoBoxValue]

Cell(value) == [alloc |-> TRUE, value |-> value]

\* struct BlackBox { type_id, dropper, content_ptr }.  The dropper is the
\* closure made in new; it is told apart by the type T it was made for.
BlackBox(type_id, dropper, content_ptr) ==
    [state |-> "live", type_id |-> type_id, dropper |-> dropper,
     content_ptr |-> content_ptr]

\* No BlackBox has been made yet.
NoBox == [state |-> "none", type_id |-> TypeIdOf(NoType), dropper |-> NoType,
          content_ptr |-> 0]

BoxCall(op, T, result, value, ref) ==
    [op |-> op, type |-> T, result |-> result, value |-> value, ref |-> ref]

NoBoxCall == BoxCall("none", NoType, "none", NoBoxValue, 0)

\* ReusableIndexVec::new / with_capacity: an empty vector, no removed slot.
\* No BlackBox exists and every heap cell is free.
Init ==
    /\ bb = NoBox
    /\ heap = [p \in Ptrs |-> FreeCell]
    /\ dropper_calls = <<>>
    /\ bbOp = NoBoxCall
    /\ stored = [value |-> NoBoxValue, written |-> FALSE, ptr |-> 0,
                 initial |-> NoBoxValue]
    /\ ub = FALSE
    /\ vector = <<>>
    /\ last_removed = NoIndex
    /\ panicked = FALSE
    /\ lastOp = NoOp
    /\ adds = 0
    /\ issued = {}
    /\ removed = {}
    /\ fills = <<>>
    /\ run = <<>>
    /\ freed = <<>>
    /\ removes = 0
    /\ peak = 0
    /\ iter = NoIter
    /\ yielded = <<>>
    /\ earlier = NoEarlier
    /\ pc = 1
    /\ ids = <<>>

\* --------------------------------------------------------- the operations
\* The result of add: the new vector and last_removed, the ID returned,
\* whether the call panicked, and whether it reused a removed node.
AddResult(vec, lr, id, panic, reused) ==
    [vector |-> vec, last_removed |-> lr, id |-> id, panicked |-> panic,
     reused |-> reused]

\* Mutant of add_reuse: the ID is built from next_removed instead of last_removed.
add_reuse_returns_next(vec, lr, node) ==
    IF ~(lr < Len(vec))
    THEN AddResult(vec, lr, NoID, TRUE, TRUE)
    ELSE LET node_state == At(vec, lr)
             new_cycle_stamp == (node_state.stamp + 1) % CycleStampModulus IN
         CASE node_state.tag = "Removed" ->
                AddResult(SetAt(vec, lr, Exists(new_cycle_stamp, node)), NoIndex,
                          ID(new_cycle_stamp, lr), FALSE, TRUE)
           [] node_state.tag = "RemovedAndNext" ->
                AddResult(SetAt(vec, lr, Exists(new_cycle_stamp, node)), node_state.next,
                          ID(new_cycle_stamp, node_state.next), FALSE, TRUE)
           [] OTHER ->
                AddResult(vec, lr, NoID, TRUE, TRUE)

\* Mutant of add_reuse: the link of a RemovedAndNext node is dropped.
add_reuse_drops_list(vec, lr, node) ==
    IF ~(lr < Len(vec))
    THEN AddResult(vec, lr, NoID, TRUE, TRUE)
    ELSE LET node_state == At(vec, lr)
             new_cycle_stamp == WrappingAdd1(node_state.stamp) IN
         CASE node_state.tag \in {"Removed", "RemovedAndNext"} ->
                AddResult(SetAt(vec, lr, Exists(new_cycle_stamp, node)), NoIndex,
                          ID(new_cycle_stamp, lr), FALSE, TRUE)
           [] OTHER ->
                AddResult(vec, lr, NoID, TRUE, TRUE)

\* ReusableIndexVec::add, the branch `if let Some(last_removed)`: the new node
\* takes the place of the node at last_removed, one cycle stamp later.  An
\* index out of bounds or a node that exists there is a panic.
add_reuse(vec, lr, node) ==
    IF ~(lr < Len(vec))
    THEN AddResult(vec, lr, NoID, TRUE, TRUE)
    ELSE LET node_state == At(vec, lr)
             new_cycle_stamp == WrappingAdd1(node_state.stamp) IN
         CASE node_state.tag = "Removed" ->
                AddResult(SetAt(vec, lr, Exists(new_cycle_stamp, node)), NoIndex,
                          ID(new_cycle_stamp, lr), FALSE, TRUE)
           [] node_state.tag = "RemovedAndNext" ->
                AddResult(SetAt(vec, lr, Exists(new_cycle_stamp, node)), node_state.next,
                          ID(new_cycle_stamp, lr), FALSE, TRUE)
           [] OTHER ->
                AddResult(vec, lr, NoID, TRUE, TRUE)

\* Mutant of add_new: the index is taken before the push.
add_new_index_before_push(vec, lr, node) ==
    AddResult(Append(vec, Exists(0, node)), lr,
              ID(0, IF Len(vec) = 0 THEN 0 ELSE Len(vec) - 1), FALSE, FALSE)

\* ReusableIndexVec::add, the else branch: a brand new node is pushed with
\* cycle stamp 0; its index is the last one of the grown vector.
add_new(vec, lr, node) ==
    AddResult(Append(vec, Exists(0, node)), lr,
              ID(0, Len(Append(vec, Exists(0, node))) - 1), FALSE, FALSE)

\* Mutant of add: a new node is always pushed.
add_always_pushes(vec, lr, node) == add_new(vec, lr, node)

\* Mutant of add: a reused slot stays the head of the free list.
add_keeps_head(vec, lr, node) ==
    IF lr # NoIndex
    THEN [add_reuse(vec, lr, node) EXCEPT !.last_removed = lr]
    ELSE add_new(vec, lr, node)

\* ReusableIndexVec::add as a function of the container.
add(vec, lr, node) ==
    IF lr # NoIndex
    THEN add_reuse(vec, lr, node)
    ELSE add_new(vec, lr, node)

\* Mutant of remove: with a free list present the tombstone is written over its
\* head instead of over the node removed.
remove_overwrites_head(vec, lr, id) ==
    IF /\ id.index < Len(vec)
       /\ At(vec, id.index).tag = "Exists"
       /\ id.stamp = At(vec, id.index).stamp
    THEN [vector |-> IF lr # NoIndex
                     THEN SetAt(vec, lr, RemovedAndNext(At(vec, id.index).stamp, lr))
                     ELSE SetAt(vec, id.index, Removed(At(vec, id.index).stamp)),
          last_removed |-> id.index,
          result |-> "Ok"]
    ELSE [vector |-> vec, last_removed |-> lr, result |-> "NotFound"]

\* Mutant of remove: the commented-out remove_by_index, which never compares
\* the cycle stamps.
remove_by_index(vec, lr, id) ==
    IF /\ id.index < Len(vec)
       /\ At(vec, id.index).tag = "Exists"
    THEN [vector |-> SetAt(vec, id.index,
                           IF lr # NoIndex
                           THEN RemovedAndNext(At(vec, id.index).stamp, lr)
                           ELSE Removed(At(vec, id.index).stamp)),
          last_removed |-> id.index,
          result |-> "Ok"]
    ELSE [vector |-> vec, last_removed |-> lr, result |-> "NotFound"]

\* Mutant of remove: with a free list present last_removed is left pointing at
\* its old head.
remove_keeps_head(vec, lr, id) ==
    IF /\ id.index < Len(vec)
       /\ At(vec, id.index).tag = "Exists"
       /\ id.stamp = At(vec, id.index).stamp
    THEN [vector |-> SetAt(vec, id.index,
                           IF lr # NoIndex
                           THEN RemovedAndNext(At(vec, id.index).stamp, lr)
                           ELSE Removed(At(vec, id.index).stamp)),
          last_removed |-> IF lr # NoIndex THEN lr ELSE id.index,
          result |-> "Ok"]
    ELSE [vector |-> vec, last_removed |-> lr, result |-> "NotFound"]

\* Mutant of remove: last_removed is set outside the checks, on a miss too.
remove_marks_head_always(vec, lr, id) ==
    IF /\ id.index < Len(vec)
       /\ At(vec, id.index).tag = "Exists"
       /\ id.stamp = At(vec, id.index).stamp
    THEN [vector |-> SetAt(vec, id.index,
                           IF lr # NoIndex
                           THEN RemovedAndNext(At(vec, id.index).stamp, lr)
                           ELSE Removed(At(vec, id.index).stamp)),
          last_removed |-> id.index,
          result |-> "Ok"]
    ELSE [vector |-> vec, last_removed |-> id.index, result |-> "NotFound"]

\* Mutant of remove: the tombstone is linked to its own index instead of to
\* the previous head.
remove_links_to_self(vec, lr, id) ==
    IF /\ id.index < Len(vec)
       /\ At(vec, id.index).tag = "Exists"
       /\ id.stamp = At(vec, id.index).stamp
    THEN [vector |-> SetAt(vec, id.index,
                           IF lr # NoIndex
                           THEN RemovedAndNext(At(vec, id.index).stamp, id.index)
                           ELSE Removed(At(vec, id.index).stamp)),
          last_removed |-> id.index,
          result |-> "Ok"]
    ELSE [vector |-> vec, last_removed |-> lr, result |-> "NotFound"]

\* Mutant of remove: a node that is already removed is removed again.
remove_any_node(vec, lr, id) ==
    IF /\ id.index < Len(vec)
       /\ id.stamp = At(vec, id.index).stamp
    THEN [vector |-> SetAt(vec, id.index,
                           IF lr # NoIndex
                           THEN RemovedAndNext(At(vec, id.index).stamp, lr)
                           ELSE Removed(At(vec, id.index).stamp)),
          last_removed |-> id.index,
          result |-> "Ok"]
    ELSE [vector |-> vec, last_removed |-> lr, result |-> "NotFound"]

\* Mutant of remove: the tombstone carries the next cycle stamp.
remove_bumps_stamp(vec, lr, id) ==
    IF /\ id.index < Len(vec)
       /\ At(vec, id.index).tag = "Exists"
       /\ id.stamp = At(vec, id.index).stamp
    THEN [vector |-> SetAt(vec, id.index,
                           IF lr # NoIndex
                           THEN RemovedAndNext(WrappingAdd1(At(vec, id.index).stamp), lr)
                           ELSE Removed(WrappingAdd1(At(vec, id.index).stamp))),
          last_removed |-> id.index,
          result |-> "Ok"]
    ELSE [vector |-> vec, last_removed |-> lr, result |-> "NotFound"]

\* Mutant of remove: the tombstone carries cycle stamp 0.
remove_zero_stamp(vec, lr, id) ==
    IF /\ id.index < Len(vec)
       /\ At(vec, id.index).tag = "Exists"
       /\ id.stamp = At(vec, id.index).stamp
    THEN [vector |-> SetAt(vec, id.index,
                           IF lr # NoIndex
                           THEN RemovedAndNext(0, lr)
                           ELSE Removed(0)),
          last_removed |-> id.index,
          result |-> "Ok"]
    ELSE [vector |-> vec, last_removed |-> lr, result |-> "NotFound"]

\* Mutant of remove: the tombstone is never linked to the previous head.
remove_unlinked(vec, lr, id) ==
    IF /\ id.index < Len(vec)
       /\ At(vec, id.index).tag = "Exists"
       /\ id.stamp = At(vec, id.index).stamp
    THEN [vector |-> SetAt(vec, id.index,
                           Removed(At(vec, id.index).stamp)),
          last_removed |-> id.index,
          result |-> "Ok"]
    ELSE [vector |-> vec, last_removed |-> lr, result |-> "NotFound"]

\* ReusableIndexVec::remove as a function of the container.
remove(vec, lr, id) ==
    IF /\ id.index < Len(vec)
       /\ At(vec, id.index).tag = "Exists"
       /\ id.stamp = At(vec, id.index).stamp
    THEN [vector |-> SetAt(vec, id.index,
                           IF lr # NoIndex
                           THEN RemovedAndNext(At(vec, id.index).stamp, lr)
                           ELSE Removed(At(vec, id.index).stamp)),
          last_removed |-> id.index,
          result |-> "Ok"]
    ELSE [vector |-> vec, last_removed |-> lr, result |-> "NotFound"]

\* Option<X>::None and Option<X>::Some(x)
None == [some |-> FALSE, val |-> NoValue]

Some(x) == [some |-> TRUE, val |-> x]

\* ReusableIndexVec::get_by_index: Some((cycle_stamp, node)) or None.
get_by_index(vec, index) ==
    IF index < Len(vec)
    THEN IF At(vec, index).tag = "Exists"
         THEN Some(<<At(vec, index).stamp, At(vec, index).value>>)
         ELSE None
    ELSE None

\* Mutant of get_by_index_mut: the node is returned without matching on Exists.
get_by_index_mut_any_node(vec, index) ==
    IF index < Len(vec)
    THEN Some(<<At(vec, index).stamp, At(vec, index).value>>)
    ELSE None

\* ReusableIndexVec::get_by_index_mut: the same lookup, for a mutable borrow.
get_by_index_mut(vec, index) ==
    IF index < Len(vec)
    THEN IF At(vec, index).tag = "Exists"
         THEN Some(<<At(vec, index).stamp, At(vec, index).value>>)
         ELSE None
    ELSE None

\* Mutant of get: the cycle stamps are not compared.
get_ignores_stamp(vec, id) ==
    LET found == get_by_index(vec, id.index) IN
    IF ~found.some THEN None ELSE Some(found.val[2])

\* ReusableIndexVec::get: Some(node) or None.  The `?` returns None early.
get(vec, id) ==
    LET found == get_by_index(vec, id.index) IN
    IF ~found.some
    THEN None
    ELSE IF id.stamp = found.val[1]
         THEN Some(found.val[2])
         ELSE None

\* Mutant of get_mut: the cycle stamps are not compared.
get_mut_ignores_stamp(vec, id) ==
    LET found == get_by_index_mut(vec, id.index) IN
    IF ~found.some THEN None ELSE Some(found.val[2])

\* ReusableIndexVec::get_mut: Some(node) or None.
get_mut(vec, id) ==
    LET found == get_by_index_mut(vec, id.index) IN
    IF ~found.some
    THEN None
    ELSE IF id.stamp = found.val[1]
         THEN Some(found.val[2])
         ELSE None

\* Mutant of self_after_get: the lookup takes the head off the free list.
self_after_get_pops_head(vec, lr, id) ==
    [vector |-> vec,
     last_removed |-> IF lr # NoIndex /\ At(vec, lr).tag = "RemovedAndNext"
                      THEN At(vec, lr).next
                      ELSE lr]

\* get and get_mut, their effect on self: they take &mut self but only borrow
\* from get_by_index / get_by_index_mut and assign to no field.
self_after_get(vec, lr, id) == [vector |-> vec, last_removed |-> lr]

\* Mutant of next: a removed node ends the call instead of being skipped.
next_stops_at_removed(slice, length, index) ==
    IF index < length
    THEN IF At(slice, index).tag = "Exists"
         THEN [index |-> index + 1, item |-> Some(At(slice, index).value)]
         ELSE [index |-> index + 1, item |-> None]
    ELSE [index |-> index, item |-> None]

\* Mutant of next: at the end of the slice the iterator goes back to index 0.
RECURSIVE next_rewinds(_, _, _)
next_rewinds(slice, length, index) ==
    IF index < length
    THEN IF At(slice, index).tag = "Exists"
         THEN [index |-> index + 1, item |-> Some(At(slice, index).value)]
         ELSE next_rewinds(slice, length, index + 1)
    ELSE [index |-> 0, item |-> None]

\* ReusableIndexIterator::next on an iterator at `index` over `slice`: the
\* index it leaves behind and the item it returns.
RECURSIVE next(_, _, _)
next(slice, length, index) ==
    IF index < length
    THEN IF At(slice, index).tag = "Exists"
         THEN [index |-> index + 1, item |-> Some(At(slice, index).value)]
         ELSE next(slice, length, index + 1)
    ELSE [index |-> index, item |-> None]

\* ReusableIndexVec::iter: a fresh iterator over the whole vector.
iter_new(vec) == [active |-> TRUE, length |-> Len(vec), index |-> 0]

\* iter().collect(): the items of repeated next() calls up to the first None.
RECURSIVE CollectFrom(_, _, _)
CollectFrom(slice, length, index) ==
    LET r == next(slice, length, index) IN
    IF r.item.some
    THEN <<r.item.val>> \o CollectFrom(slice, length, r.index)
    ELSE <<>>

Collect(vec) == CollectFrom(vec, iter_new(vec).length, iter_new(vec).index)

\* ----------------------------------------------------------------- actions
\* A call of add(node).
Add(node) ==
    LET r == add(vector, last_removed, node) IN
    /\ ~panicked
    /\ ~iter.active
    /\ vector' = r.vector
    /\ last_removed' = r.last_removed
    /\ panicked' = r.panicked
    /\ lastOp' = IF r.panicked
                 THEN Call("add", "panic", NoID, node, r.reused)
                 ELSE Call("add", "Ok", r.id, node, r.reused)
    /\ adds' = IF r.panicked THEN adds ELSE adds + 1
    /\ issued' = IF r.panicked THEN issued ELSE issued \cup {r.id}
    /\ fills' = IF r.panicked THEN fills
                ELSE IF r.reused THEN SetAt(fills, r.id.index, At(fills, r.id.index) + 1)
                ELSE Append(fills, 1)
    /\ run' = IF r.panicked THEN run ELSE Append(run, r.id)
    /\ freed' = IF r.panicked THEN freed
                ELSE SelectSeq(freed, LAMBDA i : i # r.id.index)
    /\ peak' = IF ~r.panicked /\ adds + 1 - removes > peak
               THEN adds + 1 - removes
               ELSE peak
    /\ earlier' = NoEarlier
    /\ UNCHANGED <<removed, removes, iteration>>

\* A call of remove(id).
Remove(id) ==
    LET r == remove(vector, last_removed, id) IN
    /\ ~panicked
    /\ ~iter.active
    /\ vector' = r.vector
    /\ last_removed' = r.last_removed
    /\ lastOp' = IF r.result = "Ok"
                 THEN Call("remove", "Ok", id, NoValue, FALSE)
                 ELSE Call("remove", r.result, NoID, NoValue, FALSE)
    /\ run' = <<>>
    /\ IF r.result = "Ok"
       THEN /\ removed' = removed \cup {[id |-> id, at |-> At(fills, id.index)]}
            /\ freed' = Append(freed, id.index)
            /\ removes' = removes + 1
       ELSE UNCHANGED <<removed, freed, removes>>
    /\ earlier' = IF r.result = "Ok" THEN NoEarlier ELSE earlier
    /\ UNCHANGED <<panicked, adds, issued, fills, peak, iteration>>

\* A call of get(id).
Get(id) ==
    LET r == get(vector, id) IN
    /\ ~panicked
    /\ ~iter.active
    /\ lastOp' = Call("get", IF r.some THEN "Some" ELSE "None", NoID, r.val, FALSE)
    /\ vector' = self_after_get(vector, last_removed, id).vector
    /\ last_removed' = self_after_get(vector, last_removed, id).last_removed
    /\ UNCHANGED <<panicked, history, iteration, earlier>>

\* A call of get_mut(id).  A Some result is a mutable borrow of the value of
\* slot id.index; it lasts until the next call on the container.
GetMut(id) ==
    LET r == get_mut(vector, id) IN
    /\ ~panicked
    /\ ~iter.active
    /\ lastOp' = IF r.some
                 THEN Call("get_mut", "Some", id, r.val, FALSE)
                 ELSE Call("get_mut", "None", NoID, r.val, FALSE)
    /\ vector' = self_after_get(vector, last_removed, id).vector
    /\ last_removed' = self_after_get(vector, last_removed, id).last_removed
    /\ UNCHANGED <<panicked, history, iteration, earlier>>

\* The caller assigns through the &mut T that get_mut returned.
WriteRef(node) ==
    /\ lastOp.op = "get_mut"
    /\ lastOp.result = "Some"
    /\ vector' = SetAt(vector, lastOp.id.index,
                       Exists(At(vector, lastOp.id.index).stamp, node))
    /\ lastOp' = Call("get_mut", "Some", lastOp.id, node, FALSE)
    /\ earlier' = NoEarlier
    /\ UNCHANGED <<last_removed, panicked, history, iteration>>

\* A call of iter(): borrows the vector until the iterator is dropped.
IterNew ==
    /\ ~panicked
    /\ ~iter.active
    /\ iter' = iter_new(vector)
    /\ yielded' = <<>>
    /\ lastOp' = Call("iter", "Ok", NoID, NoValue, FALSE)
    /\ UNCHANGED <<container, history, earlier>>

\* A call of next() on the live iterator.
IterNext ==
    LET r == next(vector, iter.length, iter.index) IN
    /\ iter.active
    /\ iter' = [iter EXCEPT !.index = r.index]
    /\ yielded' = IF r.item.some THEN Append(yielded, r.item.val) ELSE yielded
    /\ lastOp' = Call("next", IF r.item.some THEN "Some" ELSE "None", NoID,
                      r.item.val, FALSE)
    /\ UNCHANGED <<container, history, earlier>>

\* The iterator goes out of scope; the vector can be borrowed mutably again.
IterDrop ==
    /\ iter.active
    /\ iter' = NoIter
    /\ earlier' = [some |-> TRUE, index |-> iter.index]
    /\ UNCHANGED <<container, history, yielded, lastOp>>

\* ------------------------------------------------ general specification
AddCall ==
    \E node \in Values :
        /\ adds < MaxAdds
        /\ (last_removed # NoIndex \/ Len(vector) < MaxLen)
        /\ Add(node)
        /\ UNCHANGED <<pc, ids, blackbox>>

RemoveCall == \E id \in Handles : Remove(id) /\ UNCHANGED <<pc, ids, blackbox>>

GetCall == \E id \in Handles : Get(id) /\ UNCHANGED <<pc, ids, blackbox>>

GetMutCall == \E id \in Handles : GetMut(id) /\ UNCHANGED <<pc, ids, blackbox>>

WriteRefCall == \E node \in Values : WriteRef(node) /\ UNCHANGED <<pc, ids, blackbox>>

Next == AddCall \/ RemoveCall \/ GetCall \/ GetMutCall \/ WriteRefCall

Spec == Init /\ [][Next]_vars

\* ------------------------------------------------- the scripted scenario
\* tests::removing_elements: the calls the test makes, in order.  A remove
\* names the handle by the position of the add that returned it (id_a = 1).
ScriptAdd(node) == [op |-> "add", value |-> node, k |-> 0]

ScriptRemove(k) == [op |-> "remove", value |-> NoValue, k |-> k]

Script ==
    << ScriptAdd("String A"), ScriptAdd("String B"), ScriptAdd("String C"),
       ScriptAdd("String D"), ScriptAdd("String E"),
       ScriptRemove(2), ScriptRemove(4),
       ScriptAdd("String F"), ScriptAdd("String G"), ScriptAdd("String H"),
       ScriptAdd("String I"),
       ScriptRemove(3), ScriptRemove(7), ScriptRemove(8),
       ScriptAdd("String J"), ScriptAdd("String K"),
       ScriptRemove(9), ScriptRemove(10), ScriptRemove(1), ScriptRemove(6) >>

ScriptEnd == Len(Script) + 1

\* pc = Aborted: an unwrap() of the test panicked.
Aborted == 0

\* let id_x = vec_tad.add("String X");
ScenarioAdd ==
    /\ pc \in 1 .. Len(Script)
    /\ Script[pc].op = "add"
    /\ Add(Script[pc].value)
    /\ ids' = Append(ids, add(vector, last_removed, Script[pc].value).id)
    /\ pc' = pc + 1
    /\ UNCHANGED blackbox

\* vec_tad.remove(id_x).unwrap();
ScenarioRemove ==
    /\ pc \in 1 .. Len(Script)
    /\ Script[pc].op = "remove"
    /\ Remove(ids[Script[pc].k])
    /\ pc' = IF remove(vector, last_removed, ids[Script[pc].k]).result = "Ok"
             THEN pc + 1
             ELSE Aborted
    /\ UNCHANGED <<ids, blackbox>>

\* vec_tad.get(id_x), at any point of the test.
ScenarioGet ==
    \E k \in 1 .. Len(ids) :
        /\ pc # Aborted
        /\ Get(ids[k])
        /\ UNCHANGED <<pc, ids, blackbox>>

\* vec_tad.iter().collect(), one step at a time, at any point of the test.
ScenarioIterNew == pc # Aborted /\ IterNew /\ UNCHANGED <<pc, ids, blackbox>>

ScenarioIterNext == IterNext /\ UNCHANGED <<pc, ids, blackbox>>

ScenarioIterDrop == IterDrop /\ UNCHANGED <<pc, ids, blackbox>>

NextScenario ==
    \/ ScenarioAdd
    \/ ScenarioRemove
    \/ ScenarioGet
    \/ ScenarioIterNew
    \/ ScenarioIterNext
    \/ ScenarioIterDrop

SpecScenario == Init /\ [][NextScenario]_vars

\* ------------------------------------------------ BlackBox: operations
\* enum ErrorType of error.rs.
ErrorType == {"InvalidParameter", "NotFound", "Expired", "UnexpectedError"}

\* BlackBox::new::<T>(value) with Box::into_raw returning ptr: the box and
\* the heap afterwards.
new(hp, value, ptr) ==
    [box |-> BlackBox(TypeIdOf(value.type), value.type, ptr),
     heap |-> [hp EXCEPT ![ptr] = Cell(value)]]

\* &(*(content_ptr as *const T)): what the reference made from the pointer
\* can refer to.  The cast is sound when the cell holds a T; otherwise the
\* reference is bad and any T may be read through it.
Deref(hp, ptr, T) ==
    IF ptr \in Ptrs /\ hp[ptr].alloc /\ hp[ptr].value.type = T
    THEN {hp[ptr].value}
    ELSE BoxValues(T)

\* Result<&T, Error>
BoxOk(ptr, referents) == [result |-> "Ok", ref |-> ptr, referents |-> referents]

BoxErr(error_type) == [result |-> error_type, ref |-> 0, referents |-> {}]

\* Mutant of get_ref: the two type ids are compared with != .
get_ref_inverted_check(box, hp, T) ==
    IF TypeIdOf(T) # box.type_id
    THEN BoxOk(box.content_ptr, Deref(hp, box.content_ptr, T))
    ELSE BoxErr("NotCompatible")

\* BlackBox::get_ref::<T>
get_ref(box, hp, T) ==
    IF TypeIdOf(T) = box.type_id
    THEN BoxOk(box.content_ptr, Deref(hp, box.content_ptr, T))
    ELSE BoxErr("NotCompatible")

\* Mutant of get_mut_ref: the type ids are not compared.
get_mut_ref_no_check(box, hp, T) ==
    BoxOk(box.content_ptr, Deref(hp, box.content_ptr, T))

\* Mutant of get_mut_ref: the reference is made from the address after
\* content_ptr.
get_mut_ref_next_address(box, hp, T) ==
    IF TypeIdOf(T) = box.type_id
    THEN BoxOk((box.content_ptr % MaxPtr) + 1, Deref(hp, box.content_ptr, T))
    ELSE BoxErr("NotCompatible")

\* BlackBox::get_mut_ref::<T>
get_mut_ref(box, hp, T) ==
    IF TypeIdOf(T) = box.type_id
    THEN BoxOk(box.content_ptr, Deref(hp, box.content_ptr, T))
    ELSE BoxErr("NotCompatible")

\* Mutant of get_ref_unchecked: the reference is made from the address of the
\* content_ptr field instead of from its value.
get_ref_unchecked_of_field(box, hp, T) == BoxOk(0, Deref(hp, 0, T))

\* BlackBox::get_ref_unchecked::<T>
get_ref_unchecked(box, hp, T) ==
    BoxOk(box.content_ptr, Deref(hp, box.content_ptr, T))

\* BlackBox::get_mut_ref_unchecked::<T>
get_mut_ref_unchecked(box, hp, T) ==
    BoxOk(box.content_ptr, Deref(hp, box.content_ptr, T))

\* The dropper closure new made for type T, called with usize_ptr:
\* Box::from_raw(usize_ptr as *mut T) and the drop of that box.  Freeing a
\* cell that holds no T is undefined behaviour.
dropper(hp, T, usize_ptr) ==
    IF usize_ptr \in Ptrs /\ hp[usize_ptr].alloc /\ hp[usize_ptr].value.type = T
    THEN [heap |-> [hp EXCEPT ![usize_ptr] = FreeCell], ub |-> FALSE]
    ELSE [heap |-> hp, ub |-> TRUE]

\* Mutant of drop: the dropper is not called.
drop_without_dropper(box, hp, calls) ==
    [heap |-> hp, ub |-> FALSE, calls |-> calls]

\* impl Drop for BlackBox: (self.dropper)(self.content_ptr).
drop(box, hp, calls) ==
    [heap |-> dropper(hp, box.dropper, box.content_ptr).heap,
     ub |-> dropper(hp, box.dropper, box.content_ptr).ub,
     calls |-> Append(calls, box.content_ptr)]

\* -------------------------------------------------- BlackBox: actions
\* let boxed = BlackBox::new(value); a box made earlier is out of scope.
BoxNew ==
    \E T \in BoxTypes : \E value \in BoxValues(T) :
    \E ptr \in {p \in Ptrs : ~heap[p].alloc} :
        /\ ~ub
        /\ bb.state \in {"none", "dropped"}
        /\ bb' = new(heap, value, ptr).box
        /\ heap' = new(heap, value, ptr).heap
        /\ dropper_calls' = <<>>
        /\ bbOp' = BoxCall("new", T, "Ok", value, ptr)
        /\ stored' = [value |-> value, written |-> FALSE, ptr |-> ptr,
                       initial |-> value]
        /\ UNCHANGED <<ub, slotmap>>

\* A read through a reference a call has returned.  A bad reference is
\* undefined behaviour.
Undefined(r) == Cardinality(r.referents) # 1

\* boxed.get_ref::<T>(), and the use of the reference.
BoxGetRef ==
    \E T \in BoxTypes :
        LET r == get_ref(bb, heap, T) IN
        /\ ~ub
        /\ bb.state = "live"
        /\ \/ /\ r.result = "Ok"
              /\ \E v \in r.referents : bbOp' = BoxCall("get_ref", T, "Ok", v, r.ref)
              /\ ub' = Undefined(r)
           \/ /\ r.result # "Ok"
              /\ bbOp' = BoxCall("get_ref", T, r.result, NoBoxValue, r.ref)
              /\ ub' = ub
        /\ UNCHANGED <<bb, heap, dropper_calls, stored, slotmap>>

\* boxed.get_mut_ref::<T>(), and the use of the reference for a read.
BoxGetMutRef ==
    \E T \in BoxTypes :
        LET r == get_mut_ref(bb, heap, T) IN
        /\ ~ub
        /\ bb.state = "live"
        /\ \/ /\ r.result = "Ok"
              /\ \E v \in r.referents : bbOp' = BoxCall("get_mut_ref", T, "Ok", v, r.ref)
              /\ ub' = Undefined(r)
           \/ /\ r.result # "Ok"
              /\ bbOp' = BoxCall("get_mut_ref", T, r.result, NoBoxValue, r.ref)
              /\ ub' = ub
        /\ UNCHANGED <<bb, heap, dropper_calls, stored, slotmap>>

\* unsafe { boxed.get_ref_unchecked::<T>() }, and the use of the reference.
BoxGetRefUnchecked ==
    \E T \in BoxTypes :
        LET r == get_ref_unchecked(bb, heap, T) IN
        /\ ~ub
        /\ bb.state = "live"
        /\ \E v \in r.referents :
               bbOp' = BoxCall("get_ref_unchecked", T, "Ok", v, r.ref)
        /\ ub' = Undefined(r)
        /\ UNCHANGED <<bb, heap, dropper_calls, stored, slotmap>>

\* unsafe { boxed.get_mut_ref_unchecked::<T>() }, and the use of the reference
\* for a read.
BoxGetMutRefUnchecked ==
    \E T \in BoxTypes :
        LET r == get_mut_ref_unchecked(bb, heap, T) IN
        /\ ~ub
        /\ bb.state = "live"
        /\ \E v \in r.referents :
               bbOp' = BoxCall("get_mut_ref_unchecked", T, "Ok", v, r.ref)
        /\ ub' = Undefined(r)
        /\ UNCHANGED <<bb, heap, dropper_calls, stored, slotmap>>

\* *reference = value, through the &mut T the last call returned.
BoxWrite ==
    \E value \in BoxValues(bbOp.type) :
        /\ ~ub
        /\ bb.state = "live"
        /\ bbOp.op \in {"get_mut_ref", "get_mut_ref_unchecked"}
        /\ bbOp.result = "Ok"
        /\ bbOp.ref \in Ptrs
        /\ heap' = [heap EXCEPT ![bbOp.ref] = Cell(value)]
        /\ bbOp' = [bbOp EXCEPT !.value = value]
        /\ stored' = [stored EXCEPT !.value = value, !.written = TRUE]
        /\ UNCHANGED <<bb, dropper_calls, ub, slotmap>>

\* The box goes out of scope.
BoxDrop ==
    LET r == drop(bb, heap, dropper_calls) IN
    /\ ~ub
    /\ bb.state = "live"
    /\ bb' = [bb EXCEPT !.state = "dropped"]
    /\ heap' = r.heap
    /\ dropper_calls' = r.calls
    /\ ub' = r.ub
    /\ bbOp' = BoxCall("drop", NoType, "Ok", NoBoxValue, bb.content_ptr)
    /\ UNCHANGED <<stored, slotmap>>

NextBox ==
    \/ BoxNew
    \/ BoxGetRef
    \/ BoxGetMutRef
    \/ BoxGetRefUnchecked
    \/ BoxGetMutRefUnchecked
    \/ BoxWrite
    \/ BoxDrop

SpecBox == Init /\ [][NextBox]_vars

\* ------------------------------------------------------------ properties
\* Slot i holds a value.
Occupied(i) == i < Len(vector) /\ At(vector, i).tag = "Exists"

\* The indices of the slots, in ascending order.
Slots == 0 .. (Len(vector) - 1)

\* The handles remove has accepted for slot i just before its latest fill.
LastOccupants(i) == {r \in removed : r.id.index = i /\ r.at = At(fills, i) - 1}

\* C1: right after id = add(v), get(id) returns Some(v), both when the value
\* went into a reused slot and when it went into a newly appended slot.
C1_RoundTrip ==
    (lastOp.op = "add" /\ lastOp.result = "Ok") =>
        get(vector, lastOp.id) = Some(lastOp.value)

\* C1 witness: an add has just put "B" in a reused slot next to a slot holding "A".
C1_Witness ==
    /\ lastOp.op = "add"
    /\ lastOp.reused
    /\ lastOp.value = "B"
    /\ \E i \in Slots : i # lastOp.id.index /\ Occupied(i) /\ At(vector, i).value = "A"

\* C2: right after remove(id) returned Ok, get(id) returns None and a second
\* remove(id) returns NotFound.
C2_Tombstone ==
    (lastOp.op = "remove" /\ lastOp.result = "Ok") =>
        /\ get(vector, lastOp.id) = None
        /\ remove(vector, last_removed, lastOp.id).result = "NotFound"

\* C2 witness: a remove has just succeeded while another slot is still occupied
\* and a third is already on the free list.
C2_Witness ==
    /\ lastOp.op = "remove"
    /\ lastOp.result = "Ok"
    /\ At(vector, lastOp.id.index).tag = "RemovedAndNext"
    /\ \E i \in Slots : Occupied(i)

\* C3: when add has put a value in a previously freed slot i, the handle it
\* returned has index i and a generation different from that of the handle
\* that last occupied i, and for as long as the new handle occupies slot i the
\* old handle resolves to None in get and to NotFound in remove.
C3_GenerationBump ==
    /\ (lastOp.op = "add" /\ lastOp.result = "Ok" /\ lastOp.reused) =>
           /\ At(fills, lastOp.id.index) > 1
           /\ At(vector, lastOp.id.index) = Exists(lastOp.id.stamp, lastOp.value)
    /\ \A i \in Slots :
           (Occupied(i) /\ At(fills, i) > 1) =>
               /\ LastOccupants(i) # {}
               /\ \A r \in LastOccupants(i) :
                      /\ r.id.stamp # At(vector, i).stamp
                      /\ get(vector, r.id) = None
                      /\ remove(vector, last_removed, r.id).result = "NotFound"

\* C3 witness: an add has just reused a slot, and another reused slot is still
\* occupied by the handle an earlier add gave it.
C3_Witness ==
    /\ lastOp.op = "add"
    /\ lastOp.reused
    /\ \E i \in Slots : i # lastOp.id.index /\ Occupied(i) /\ At(fills, i) > 1

\* A removed handle no longer resolves.
Dead(id) ==
    /\ get(vector, id) = None
    /\ get_mut(vector, id) = None
    /\ remove(vector, last_removed, id).result = "NotFound"

\* C4 as claimed: once remove(id) has succeeded, every later remove(id) returns
\* NotFound and every later get(id)/get_mut(id) returns None, however often the
\* slot is reused afterwards.
C4_StaleForever == \A r \in removed : Dead(r.id)

\* C4 as amended: once remove(id) has succeeded, remove(id) returns NotFound and
\* get(id)/get_mut(id) return None for as long as slot id.index has been
\* refilled fewer times than there are cycle stamps since that remove.
C4_StaleUntilWrap ==
    \A r \in removed :
        (At(fills, r.id.index) - r.at < CycleStampModulus) => Dead(r.id)

\* C4 witness: a removed handle whose slot has been refilled and is occupied by
\* a later handle.
C4_Witness ==
    \E r \in removed :
        /\ At(fills, r.id.index) - r.at >= 1
        /\ At(fills, r.id.index) - r.at < CycleStampModulus
        /\ Occupied(r.id.index)

\* C5: a handle that no add call has returned does not resolve: remove returns
\* NotFound and get/get_mut return None for it.
C5_NeverIssued ==
    \A h \in Handles :
        (h \notin issued) =>
            /\ get(vector, h) = None
            /\ get_mut(vector, h) = None
            /\ remove(vector, last_removed, h).result = "NotFound"

\* C5 witness: a never-issued handle points at an occupied slot, and an issued
\* handle of that slot resolves.
C5_Witness ==
    \E h \in Handles, g \in issued :
        /\ h \notin issued
        /\ h.index = g.index
        /\ Occupied(h.index)
        /\ get(vector, g).some

\* C6: the handles returned by add calls with no remove call in between are
\* pairwise distinct.
C6_Uniqueness ==
    \A j, k \in 1 .. Len(run) : j # k => run[j] # run[k]

\* C6 witness: three adds in a row, the first into a reused slot and the last
\* into a new one.
C6_Witness ==
    /\ Len(run) >= 3
    /\ At(fills, run[1].index) > 1
    /\ At(fills, run[Len(run)].index) = 1

\* The empty slots, oldest removal first.
StillEmpty == SelectSeq(freed, LAMBDA k : ~Occupied(k))

\* C7: an add reuses the most recently removed slot that is still empty, and
\* appends a new slot only when no slot is empty.
C7_Lifo ==
    [][(adds' = adds + 1) =>
          IF \E k \in Slots : ~Occupied(k)
          THEN /\ Len(vector') = Len(vector)
               /\ StillEmpty # <<>>
               /\ lastOp'.id.index = StillEmpty[Len(StillEmpty)]
          ELSE /\ Len(vector') = Len(vector) + 1
               /\ lastOp'.id.index = Len(vector)]_vars

\* C7 witness: two slots were removed and two adds refilled them; the last add
\* took the slot removed first.
C7_Witness ==
    /\ lastOp.op = "add"
    /\ lastOp.reused
    /\ Len(run) = 2
    /\ run[1].index # run[2].index
    /\ At(fills, run[1].index) > 1

\* The values get resolves, slot by slot in ascending index order.
RECURSIVE ResolvableFrom(_)
ResolvableFrom(i) ==
    IF i >= Len(vector)
    THEN <<>>
    ELSE LET hits == {h \in {ID(c, i) : c \in CycleStamp} : get(vector, h).some} IN
         (IF hits = {} THEN <<>> ELSE <<get(vector, CHOOSE h \in hits : TRUE).val>>)
             \o ResolvableFrom(i + 1)

\* C8: iter() yields exactly the values of the occupied slots, the ones get
\* resolves, each once and in ascending slot-index order, nothing for removed
\* slots; their number is the number of adds minus the successful removes.
C8_IterationComplete ==
    /\ Collect(vector) = ResolvableFrom(0)
    /\ Len(Collect(vector)) = adds - removes
    /\ Len(Collect(vector)) = Cardinality({i \in Slots : Occupied(i)})

\* C8 witness: an occupied slot lies behind a removed one, and another removed
\* slot lies behind that.
C8_Witness ==
    \E i, j, k \in Slots :
        /\ i < j /\ j < k
        /\ ~Occupied(i) /\ Occupied(j) /\ ~Occupied(k)

\* The handles of the scenario that get resolves, by position of their add.
ScenarioLive == {k \in 1 .. Len(ids) : get(vector, ids[k]).some}

\* The live iterator has returned None: the iteration is complete.
IterationDone == iter.active /\ lastOp.op = "next" /\ lastOp.result = "None"

\* C9 as claimed: after the whole scenario the iteration yields exactly the
\* sequence E, K, and of the eleven handles issued get resolves only those of
\* E and K.
C9_ScenarioEK ==
    (pc = ScriptEnd) =>
        /\ Collect(vector) = <<"String E", "String K">>
        /\ Len(ids) = 11
        /\ ScenarioLive = {5, 11}
        /\ get(vector, ids[5]) = Some("String E")
        /\ get(vector, ids[11]) = Some("String K")

\* C9 as amended: after the whole scenario the iteration yields exactly the
\* sequence K, E (K sits in slot 1, E in slot 4), and of the eleven handles
\* issued get resolves only those of E and K.
C9_ScenarioKE ==
    (pc = ScriptEnd) =>
        /\ Collect(vector) = <<"String K", "String E">>
        /\ IterationDone => yielded = <<"String K", "String E">>
        /\ Len(ids) = 11
        /\ ScenarioLive = {5, 11}
        /\ get(vector, ids[5]) = Some("String E")
        /\ get(vector, ids[11]) = Some("String K")

\* C9 witness: the scenario has run to its end and an iterator has walked the
\* seven slots to the end.
C9_Witness ==
    /\ pc = ScriptEnd
    /\ IterationDone
    /\ iter.index = 7
    /\ Len(yielded) = 2

\* The access invariant: the handle is in bounds, its slot is occupied and the
\* slot's cycle stamp is the handle's.
Valid(vec, id) ==
    /\ id.index < Len(vec)
    /\ At(vec, id.index).tag = "Exists"
    /\ At(vec, id.index).stamp = id.stamp

\* C10: remove never panics; called with a handle that does not validate, of
\* any index and generation, it returns NotFound and leaves every slot and
\* last_removed as they were.
C10_FailedRemoveNoOp ==
    /\ [](\A id \in Handles :
             ~Valid(vector, id) =>
                 /\ remove(vector, last_removed, id).result = "NotFound"
                 /\ remove(vector, last_removed, id).vector = vector
                 /\ remove(vector, last_removed, id).last_removed = last_removed)
    /\ [][(lastOp'.op = "remove" /\ lastOp'.result # "Ok") =>
              /\ lastOp'.result = "NotFound"
              /\ vector' = vector
              /\ last_removed' = last_removed
              /\ panicked' = FALSE]_vars

\* C10 witness: a remove has just failed on a container that has a stale
\* handle pointing at an occupied slot and a linked free list.
C10_Witness ==
    /\ lastOp.op = "remove"
    /\ lastOp.result = "NotFound"
    /\ \E r \in removed : Occupied(r.id.index) /\ ~Valid(vector, r.id)
    /\ last_removed # NoIndex
    /\ At(vector, last_removed).tag = "RemovedAndNext"

\* The handles that validate now: one per occupied slot.
LiveHandles == {ID(At(vector, i).stamp, i) : i \in {k \in Slots : Occupied(k)}}

\* C11: for every handle (g, i), get returns Some, get_mut returns Some and
\* remove returns Ok exactly when i is in bounds, slot i is occupied and its
\* generation is g; the three never disagree.
C11_UniformValidity ==
    \A h \in Handles :
        /\ get(vector, h).some = Valid(vector, h)
        /\ get_mut(vector, h).some = Valid(vector, h)
        /\ (remove(vector, last_removed, h).result = "Ok") = Valid(vector, h)

\* C11 witness: one slot is occupied under a later generation, one is removed,
\* and the vector is shorter than the largest index a caller may pass.
C11_Witness ==
    /\ Len(vector) < MaxLen
    /\ \E i, j \in Slots :
           /\ Occupied(i) /\ At(vector, i).stamp > 0
           /\ ~Occupied(j)

\* C12: an add, and a remove of any other handle whether it succeeds or not,
\* leave get(h) of every live handle h as it was.
C12_OthersUndisturbed ==
    [][(adds' = adds + 1 \/ lastOp'.op = "remove") =>
          \A h \in LiveHandles :
              \/ (lastOp'.op = "remove" /\ lastOp'.id = h)
              \/ get(vector', h) = get(vector, h)]_vars

\* C12 witness: a remove has just succeeded next to two other live handles, one
\* of them in a reused slot.
C12_Witness ==
    /\ lastOp.op = "remove"
    /\ lastOp.result = "Ok"
    /\ Cardinality(LiveHandles) >= 2
    /\ \E h \in LiveHandles : h.stamp > 0


\* ------------------------------------------------ BlackBox: properties
\* The type the box was built from, and a box that can still be used.
BuiltFrom == stored.initial.type

Usable == bb.state = "live" /\ ~ub

\* C13: a BlackBox built from a value x of type T answers get_ref::<T>() with
\* Ok and a value equal to x, and answers get_ref::<U>() and
\* get_mut_ref::<U>() for every other type U with the error NotCompatible;
\* the calls that were made returned just that.
C13_TypeErasureSound ==
    Usable =>
        /\ ~stored.written =>
              /\ get_ref(bb, heap, BuiltFrom).result = "Ok"
              /\ get_ref(bb, heap, BuiltFrom).referents = {stored.initial}
        /\ \A U \in BoxTypes \ {BuiltFrom} :
              /\ get_ref(bb, heap, U).result = "NotCompatible"
              /\ get_mut_ref(bb, heap, U).result = "NotCompatible"
        /\ bbOp.op \in {"get_ref", "get_mut_ref"} =>
              IF bbOp.type = BuiltFrom
              THEN bbOp.result = "Ok" /\ (~stored.written => bbOp.value = stored.initial)
              ELSE bbOp.result = "NotCompatible"

\* A wrong-typed get_mut_ref has just been refused on a box that was never
\* written.
C13_Witness ==
    /\ Usable
    /\ ~stored.written
    /\ bbOp.op = "get_mut_ref"
    /\ bbOp.result = "NotCompatible"

\* C14: the dropper bound at construction is called exactly once in the life
\* of a BlackBox: not while the box is alive, once when it has gone out of
\* scope, and with the pointer the construction allocated, whose cell it
\* frees.
C14_DroppedExactlyOnce ==
    /\ bb.state # "none" =>
          /\ bb.dropper = BuiltFrom
          /\ bb.content_ptr = stored.ptr
    /\ bb.state = "live" =>
          /\ dropper_calls = <<>>
          /\ heap[stored.ptr].alloc
    /\ bb.state = "dropped" =>
          /\ dropper_calls = <<stored.ptr>>
          /\ ~heap[stored.ptr].alloc
          /\ ~ub

\* A box that was written to has gone out of scope.
C14_Witness ==
    /\ bb.state = "dropped"
    /\ stored.written
    /\ Len(dropper_calls) = 1

\* C15: after a value w was written through the reference get_mut_ref::<T>()
\* returned, get_ref::<T>() returns w, and not the construction value when w
\* differs from it, until the next write.
C15_WriteThenRead ==
    (Usable /\ stored.written) =>
        /\ get_ref(bb, heap, BuiltFrom).result = "Ok"
        /\ get_ref(bb, heap, BuiltFrom).referents = {stored.value}
        /\ (bbOp.op = "get_ref" /\ bbOp.type = BuiltFrom) =>
              /\ bbOp.value = stored.value
              /\ stored.value # stored.initial => bbOp.value # stored.initial

\* get_ref has read back a written value that differs from the construction
\* value.
C15_Witness ==
    /\ Usable
    /\ stored.written
    /\ stored.value # stored.initial
    /\ bbOp.op = "get_ref"
    /\ bbOp.type = BuiltFrom
    /\ bbOp.value = stored.value

\* The value a correctly typed checked access returns.
C16_Recovered ==
    (Usable /\ bbOp.result = "NotCompatible") =>
        /\ get_ref(bb, heap, BuiltFrom).result = "Ok"
        /\ get_ref(bb, heap, BuiltFrom).referents = {stored.value}
        /\ get_mut_ref(bb, heap, BuiltFrom).result = "Ok"
        /\ get_mut_ref(bb, heap, BuiltFrom).referents = {stored.value}

\* C16: a checked access that fails with NotCompatible leaves the type
\* identity, the pointer and the stored value of the BlackBox as they were,
\* and an access with the right type then succeeds with the value the box
\* held before the failure.
C16_MismatchRecoverable ==
    /\ [](C16_Recovered)
    /\ [][bbOp'.result = "NotCompatible" =>
             /\ bb' = bb
             /\ heap' = heap
             /\ stored' = stored
             /\ ub' = ub
             /\ get_ref(bb', heap', BuiltFrom) = get_ref(bb, heap, BuiltFrom)]_vars

\* A wrong-typed get_ref has just been refused on a box holding a written
\* value.
C16_Witness ==
    /\ Usable
    /\ stored.written
    /\ bbOp.op = "get_ref"
    /\ bbOp.result = "NotCompatible"

\* C17: for a BlackBox built from a value of type T, get_ref_unchecked::<T>()
\* and get_mut_ref_unchecked::<T>() refer, in every state, to the value
\* get_ref::<T>() returns.
C17_UncheckedAgrees ==
    Usable =>
        /\ get_ref(bb, heap, BuiltFrom).result = "Ok"
        /\ get_ref_unchecked(bb, heap, BuiltFrom).ref = get_ref(bb, heap, BuiltFrom).ref
        /\ get_ref_unchecked(bb, heap, BuiltFrom).referents
              = get_ref(bb, heap, BuiltFrom).referents
        /\ get_mut_ref_unchecked(bb, heap, BuiltFrom).ref = get_ref(bb, heap, BuiltFrom).ref
        /\ get_mut_ref_unchecked(bb, heap, BuiltFrom).referents
              = get_ref(bb, heap, BuiltFrom).referents
        /\ (bbOp.op \in {"get_ref_unchecked", "get_mut_ref_unchecked"}
                /\ bbOp.type = BuiltFrom) => bbOp.value = stored.value

\* An unchecked access with the right type has read a value that was written
\* through a mutable reference.
C17_Witness ==
    /\ Usable
    /\ stored.written
    /\ bbOp.op = "get_ref_unchecked"
    /\ bbOp.type = BuiltFrom
    /\ bbOp.value = stored.value


\* ------------------------------------------------ error kinds: properties
\* The results of the slot map and of the BlackBox that are not errors.
NotAnError == {"none", "Ok", "Some", "None", "panic"}

\* Every error the slot map has returned is of kind NotFound.
SlotMapErrors == lastOp.result \notin NotAnError => lastOp.result = "NotFound"

\* Every error the checked BlackBox accessors have returned is of kind
\* NotCompatible.
BlackBoxErrors == bbOp.result \notin NotAnError => bbOp.result = "NotCompatible"

\* Neither primitive has returned Expired.
NeverExpired == lastOp.result # "Expired" /\ bbOp.result # "Expired"

\* Every error that was returned is of a kind the shared error type has.
ReturnedKindsDeclared ==
    /\ lastOp.result \notin NotAnError => lastOp.result \in ErrorType
    /\ bbOp.result \notin NotAnError => bbOp.result \in ErrorType

\* C18: the error kind type both components share consists of
\* InvalidParameter, NotFound, Expired, UnexpectedError and NotCompatible;
\* every error of the slot map is NotFound, every error of the checked
\* BlackBox accessors is NotCompatible, and Expired is never returned.
C18_SharedTaxonomy ==
    /\ SlotMapErrors
    /\ BlackBoxErrors
    /\ NeverExpired
    /\ ReturnedKindsDeclared
    /\ ErrorType = {"InvalidParameter", "NotFound", "Expired", "UnexpectedError",
                    "NotCompatible"}


\* ------------------------------------------------ free list: properties
\* C19: in every state add and remove calls can reach, last_removed, when
\* present, is an index within the vector whose node is Removed or
\* RemovedAndNext, never Exists.
C19_HeadIsEmptySlot ==
    last_removed # NoIndex =>
        /\ last_removed >= 0
        /\ last_removed < Len(vector)
        /\ At(vector, last_removed).tag \in {"Removed", "RemovedAndNext"}
        /\ ~Occupied(last_removed)

\* add has just taken the head of a free list of two or more slots, and the
\* head has moved on to the next of them.
C19_Witness ==
    /\ lastOp.op = "add"
    /\ lastOp.reused
    /\ last_removed # NoIndex
    /\ last_removed # lastOp.id.index

\* Following the links from index i, having been at the indices in visited:
\* every index met is within the vector, holds no value and was not met
\* before, and the walk ends at a Removed node.
RECURSIVE FreeListFrom(_, _, _)
FreeListFrom(vec, i, visited) ==
    /\ i >= 0
    /\ i < Len(vec)
    /\ i \notin visited
    /\ At(vec, i).tag \in {"Removed", "RemovedAndNext"}
    /\ At(vec, i).tag = "RemovedAndNext" =>
          FreeListFrom(vec, At(vec, i).next, visited \cup {i})

\* C20: in every reachable state the links followed from last_removed pass
\* only through in-bounds empty slots, pass through no slot twice, and end at
\* a Removed slot, which has no link.
C20_FreeListShape ==
    last_removed # NoIndex => FreeListFrom(vector, last_removed, {})

\* A free list of three slots: two links, then a Removed node.
C20_Witness ==
    /\ last_removed # NoIndex
    /\ At(vector, last_removed).tag = "RemovedAndNext"
    /\ At(vector, At(vector, last_removed).next).tag = "RemovedAndNext"
    /\ removes >= 3


\* ------------------------------------------------ add and remove: steps
\* C21: whatever add, remove, get and get_mut calls were made, with whatever
\* handles, add does not find last_removed out of bounds nor the node there in
\* the Exists state: no add has panicked and the next one will not.
C21_NoReusePanic ==
    /\ ~panicked
    /\ lastOp.result # "panic"
    /\ \A node \in Values : ~add(vector, last_removed, node).panicked

\* An add has reused a slot after two removes, and another empty slot remains
\* for the next add.
C21_Witness ==
    /\ lastOp.op = "add"
    /\ lastOp.result = "Ok"
    /\ lastOp.reused
    /\ removes >= 2
    /\ last_removed # NoIndex

\* C22: the cycle stamp of a slot changes only in the step that takes the
\* slot from empty to occupied, and then to the previous stamp plus one,
\* wrapping; remove, get, get_mut and adds into other slots leave every stamp
\* as it was, and a removed slot keeps the stamp it had while occupied.
C22_GenerationDiscipline ==
    [][\A i \in Slots :
          LET before == At(vector, i)
              after == At(vector', i) IN
          /\ (before.tag # "Exists" /\ after.tag = "Exists") =>
                /\ after.stamp = (before.stamp + 1) % CycleStampModulus
                /\ lastOp'.op = "add"
                /\ lastOp'.id.index = i
          /\ ~(before.tag # "Exists" /\ after.tag = "Exists") =>
                after.stamp = before.stamp]_vars

\* A remove has just left a tombstone that carries a stamp other than 0.
C22_Witness ==
    /\ lastOp.op = "remove"
    /\ lastOp.result = "Ok"
    /\ At(vector, lastOp.id.index).tag # "Exists"
    /\ At(vector, lastOp.id.index).stamp = lastOp.id.stamp
    /\ lastOp.id.stamp > 0

\* C23: when remove(id) accepts id, slot id.index becomes
\* RemovedAndNext(its stamp, old last_removed) if last_removed was present and
\* Removed(its stamp) otherwise, last_removed becomes id.index, and no other
\* slot changes.
C23_RemovalStep ==
    [][(lastOp'.op = "remove" /\ lastOp'.result = "Ok") =>
          LET id == lastOp'.id IN
          /\ Len(vector') = Len(vector)
          /\ At(vector', id.index) =
                IF last_removed # NoIndex
                THEN RemovedAndNext(At(vector, id.index).stamp, last_removed)
                ELSE Removed(At(vector, id.index).stamp)
          /\ At(vector, id.index).stamp = id.stamp
          /\ last_removed' = id.index
          /\ \A j \in Slots \ {id.index} : At(vector', j) = At(vector, j)]_vars

\* A remove has linked its tombstone to an earlier one.
C23_Witness ==
    /\ lastOp.op = "remove"
    /\ lastOp.result = "Ok"
    /\ last_removed = lastOp.id.index
    /\ At(vector, last_removed).tag = "RemovedAndNext"
    /\ At(vector, last_removed).stamp > 0

\* C24: with last_removed absent, add appends one slot Exists(0, value) and
\* returns ID(0, previous length); with last_removed present, add keeps the
\* number of slots, overwrites only the slot at last_removed, and sets
\* last_removed to the link of that slot if it was RemovedAndNext and to None
\* if it was Removed.
C24_InsertionStep ==
    [][(adds' = adds + 1) =>
          IF last_removed = NoIndex
          THEN /\ vector' = Append(vector, Exists(0, lastOp'.value))
               /\ lastOp'.id = ID(0, Len(vector))
               /\ last_removed' = NoIndex
          ELSE /\ Len(vector') = Len(vector)
               /\ \A j \in Slots \ {last_removed} : At(vector', j) = At(vector, j)
               /\ At(vector', last_removed).tag = "Exists"
               /\ At(vector', last_removed).value = lastOp'.value
               /\ lastOp'.id.index = last_removed
               /\ last_removed' =
                     IF At(vector, last_removed).tag = "RemovedAndNext"
                     THEN At(vector, last_removed).next
                     ELSE NoIndex]_vars

\* An add has reused the head of a free list of two slots and left the other
\* one as the new head.
C24_Witness ==
    /\ lastOp.op = "add"
    /\ lastOp.reused
    /\ last_removed # NoIndex
    /\ At(vector, last_removed).tag = "Removed"
    /\ Len(vector) = MaxLen

\* The largest cycle stamp.
MaxCycleStamp == CycleStampModulus - 1

\* C25: when the slot to reuse holds the largest cycle stamp, add succeeds and
\* issues a handle with stamp 0 for that slot; on the k-th reuse of a slot the
\* handle issued has stamp k modulo 2^w, w the width of the stamp.
C25_Wraparound ==
    /\ (last_removed # NoIndex /\ At(vector, last_removed).stamp = MaxCycleStamp) =>
          \A node \in Values :
              /\ ~add(vector, last_removed, node).panicked
              /\ add(vector, last_removed, node).id = ID(0, last_removed)
    /\ (lastOp.op = "add" /\ lastOp.result = "Ok") =>
          lastOp.id.stamp = (At(fills, lastOp.id.index) - 1) % CycleStampModulus
    /\ \A i \in Slots :
          At(vector, i).stamp = (At(fills, i) - 1) % CycleStampModulus

\* An add has reused a slot whose stamp was the largest one: the handle it
\* returned has stamp 0 again.
C25_Witness ==
    /\ lastOp.op = "add"
    /\ lastOp.result = "Ok"
    /\ lastOp.reused
    /\ lastOp.id.stamp = 0
    /\ At(fills, lastOp.id.index) = CycleStampModulus + 1


\* ------------------------------------------------ iteration: properties
\* What a live iterator has yielded and what it has still to yield make up
\* the values of the occupied slots in index order; once it has returned
\* None it stands at the end of the slice and returns None again.
C26_Finite ==
    iter.active =>
        /\ iter.length = Len(vector)
        /\ iter.index \in 0 .. iter.length
        /\ yielded \o CollectFrom(vector, iter.length, iter.index) = ResolvableFrom(0)
        /\ IterationDone =>
              /\ iter.index = iter.length
              /\ yielded = ResolvableFrom(0)
              /\ next(vector, iter.length, iter.index) = [index |-> iter.index, item |-> None]

\* A call of next() examines the slots from the iterator's index on, each
\* once: the empty ones it passes and the occupied one it stops behind.
C26_NextStep ==
    (iter.active /\ iter'.active) =>
        /\ iter'.index >= iter.index
        /\ iter'.index <= iter.length
        /\ \A i \in iter.index .. (iter'.index - 2) : ~Occupied(i)
        /\ lastOp'.result = "Some" =>
              /\ iter'.index > iter.index
              /\ Occupied(iter'.index - 1)
        /\ lastOp'.result = "None" =>
              /\ iter'.index = iter.length
              /\ (iter'.index > iter.index => ~Occupied(iter'.index - 1))

\* A call of iter() starts at index 0 over all the slots, wherever an earlier
\* iterator had stopped.
C26_IterStep ==
    (~iter.active /\ iter'.active) =>
        /\ iter'.index = 0
        /\ iter'.length = Len(vector)
        /\ yielded' = <<>>

\* C26: over a container of n slots an iterator returns None after examining
\* each of the indices 0..n-1 once, and returns None on every later next(); a
\* second iter() on the unchanged container starts from index 0 again and
\* yields the same sequence however far an earlier iterator had advanced.
C26_TerminationAndRestart ==
    /\ [](C26_Finite)
    /\ [][C26_NextStep /\ C26_IterStep]_vars

\* A second iterator has run to its None over a container with an empty slot,
\* after an earlier iterator over the same container was dropped part way.
C26_Witness ==
    /\ IterationDone
    /\ earlier.some
    /\ earlier.index > 0
    /\ earlier.index < Len(vector)
    /\ Len(yielded) >= 2
    /\ \E i \in Slots : ~Occupied(i)


\* ------------------------------------------------ storage: properties
\* The slots met when following the links from index i.
RECURSIVE FreeListSlots(_, _, _)
FreeListSlots(vec, i, visited) ==
    IF i < 0 \/ i >= Len(vec) \/ i \in visited \/ At(vec, i).tag = "Exists"
    THEN visited
    ELSE IF At(vec, i).tag = "RemovedAndNext"
         THEN FreeListSlots(vec, At(vec, i).next, visited \cup {i})
         ELSE visited \cup {i}

\* The slots that hold no value.
EmptySlots == {i \in Slots : ~Occupied(i)}

\* C27: in every reachable state the slots met on the walk from last_removed
\* are exactly the slots that hold no value, so last_removed is absent
\* exactly when every slot is occupied, and there is exactly one Removed slot
\* without a link whenever a slot is empty.
C27_NoLeakedSlots ==
    /\ FreeListSlots(vector, last_removed, {}) = EmptySlots
    /\ (last_removed = NoIndex) <=> (EmptySlots = {})
    /\ EmptySlots # {} =>
          Cardinality({i \in Slots : At(vector, i).tag = "Removed"}) = 1
    /\ EmptySlots = {} =>
          Cardinality({i \in Slots : At(vector, i).tag = "Removed"}) = 0

\* An add has taken one slot off a free list of three; the two that remain
\* are both on the list.
C27_Witness ==
    /\ lastOp.op = "add"
    /\ lastOp.reused
    /\ Cardinality(EmptySlots) = 2
    /\ Cardinality(FreeListSlots(vector, last_removed, {})) = 2

\* C28: after any add and remove calls on a container that started empty the
\* number of slots is the largest number of values that were live at one
\* time so far; the slot sequence never shrinks, and grows, by one, only when
\* every slot is occupied.
C28_HighWaterMark ==
    /\ [](Len(vector) = peak)
    /\ [][/\ Len(vector') >= Len(vector)
          /\ Len(vector') <= Len(vector) + 1
          /\ Len(vector') = Len(vector) + 1 =>
                /\ EmptySlots = {}
                /\ adds' = adds + 1]_vars

\* The container once held as many values as it has slots, holds fewer now,
\* and the last add reused a slot instead of growing it.
C28_Witness ==
    /\ Len(vector) = MaxLen
    /\ peak = MaxLen
    /\ adds - removes < peak
    /\ lastOp.op = "add"
    /\ lastOp.reused

\* The caller's write through the &mut T of the last get_mut.
C29_CallerWrite ==
    /\ lastOp.op = "get_mut"
    /\ lastOp.result = "Some"
    /\ lastOp'.id = lastOp.id

\* C29: get(id) and get_mut(id), for valid and invalid handles alike, leave
\* the state and cycle stamp of every slot and last_removed as they were;
\* a stored value changes only through the caller's later write, and only
\* the value get_mut lent; so a repeated get(id) returns the same result.
C29_LookupsReadOnly ==
    [][lastOp'.op \in {"get", "get_mut"} =>
          /\ last_removed' = last_removed
          /\ Len(vector') = Len(vector)
          /\ \A i \in Slots :
                /\ At(vector', i).tag = At(vector, i).tag
                /\ At(vector', i).stamp = At(vector, i).stamp
                /\ At(vector', i).next = At(vector, i).next
                /\ At(vector', i).value # At(vector, i).value =>
                      (C29_CallerWrite /\ i = lastOp.id.index)
          /\ ~C29_CallerWrite => vector' = vector]_vars

\* A get_mut with a handle that no longer resolves has returned None while a
\* free list of two slots and a live value were in place.
C29_Witness ==
    /\ lastOp.op = "get_mut"
    /\ lastOp.result = "None"
    /\ last_removed # NoIndex
    /\ At(vector, last_removed).tag = "RemovedAndNext"
    /\ \E i \in Slots : Occupied(i)

====
